---- MODULE Spec2Model ----
(***************************************************************************)
(* Model of the bdv-api risk-management control loop:                      *)
(*   routes/config.py          the ConfigStore (config_state and setters)  *)
(*   routes/pending_trades.py  the PendingOrderBook (list variant)         *)
(*   routes/routes/pending_trades.py  the PendingOrderBook (dict variant)  *)
(*   routes/monitor.py         the ControlLoop (monitor_tick)              *)
(* Fractions (0.15, 0.02, ...) are kept as per-mille integers.             *)
(***************************************************************************)
EXTENDS Integers, Sequences, FiniteSets, TLC

VARIABLES
    config_state,      \* routes/config.py: the process-wide ConfigStatus
    disk,              \* content of the config file at _get_config_path()
    tmpFile,           \* content of the .tmp file next to it (stepwise save)
    PENDING_TRADES,    \* the pending-trade records, in insertion order
    bookFile,          \* content of PENDING_TRADES_FILE (list variant)
    bookImpl,          \* which pending_trades module provides PENDING_TRADES
    BDV_AGENT_SECRET,  \* the secret of the environment ("" = none)
    clock,             \* index into Times: the current instant
    orderCount,        \* orders submitted to the broker so far, per pending id
    autoEntries,       \* auto-entry orders accepted since trades_today was 0
    last,              \* the report of the last operation
    tickpc,            \* overlapping ticks: position of each tick thread
    ticklocal,         \* overlapping ticks: locals of each tick thread
    cfgpc,             \* concurrent config handlers: position of each
    cfglocal           \* concurrent config handlers: locals of each

vars == <<config_state, disk, tmpFile, PENDING_TRADES, bookFile, bookImpl, BDV_AGENT_SECRET,
          clock, orderCount, autoEntries, last,
          tickpc, ticklocal, cfgpc, cfglocal>>

concVars == <<tickpc, ticklocal, cfgpc, cfglocal>>

----------------------------------------------------------------------------
(* Bounds *)

MaxOrders == 2      \* the model stops counting orders at this many

None == "None"

----------------------------------------------------------------------------
(* routes/config.py *)

ExecutionMode == {"manual", "auto"}

RiskMode == {"low", "medium", "high"}

MAX_TRADES_BY_RISK == [low |-> 1, medium |-> 3, high |-> 5]

ConfigStatus ==
    [execution_mode |-> "manual", risk_mode |-> "low",
     max_trades_per_day |-> 1, trades_today |-> 0]

\* str.strip().lower() on the strings the model feeds in
norm(v) ==
    CASE v = " AUTO " -> "auto"
      [] v = "High" -> "high"
      [] v = " s3cret " -> "s3cret"
      [] OTHER -> v

MaxTradesOf(cs) ==
    IF cs.risk_mode \in DOMAIN MAX_TRADES_BY_RISK
    THEN MAX_TRADES_BY_RISK[cs.risk_mode] ELSE 1

sync_max_trades(cs) == [cs EXCEPT !.max_trades_per_day = MaxTradesOf(cs)]

\* _require_secret: TRUE when the request is let through
require_secret(expected, x_bdv_secret, secret_q) ==
    \/ expected = ""
    \/ norm(IF x_bdv_secret = None THEN "" ELSE x_bdv_secret) = expected
    \/ norm(IF secret_q = None THEN "" ELSE secret_q) = expected

\* _safe_enum: the enum member for value, else default
safe_enum(enum_cls, value, default) ==
    IF norm(value) \in enum_cls THEN norm(value) ELSE default

\* int(raw["trades_today"]) on the values a file may hold
RawInts == {"x"} \cup {"-1"} \cup {"0", "1", "2", "3", "4", "5"}

IntOf ==
    [s \in RawInts \ {"x"} |->
        CASE s = "-1" -> 0 - 1 [] s = "0" -> 0 [] s = "1" -> 1 [] s = "2" -> 2
          [] s = "3" -> 3 [] s = "4" -> 4 [] s = "5" -> 5]

StrOf(n) ==
    CASE n = 0 - 1 -> "-1" [] n = 0 -> "0" [] n = 1 -> "1" [] n = 2 -> "2"
      [] n = 3 -> "3" [] n = 4 -> "4" [] n = 5 -> "5"

\* The config file: state is "missing", "unreadable" (read_text raises),
\* "malformed" (not JSON, or not a JSON object), "partial" (a write that did
\* not finish) or "ok"; a key the object lacks is None.
DiskFile(state, e, r, t) ==
    [state |-> state, execution_mode |-> e, risk_mode |-> r, trades_today |-> t]

\* _load_config_from_disk applied to the state cs and the file content d
load_config_from_disk(cs, d) ==
    IF d.state # "ok"
    THEN sync_max_trades(cs)
    ELSE
      LET c1 == IF d.execution_mode # None
                THEN [cs EXCEPT !.execution_mode =
                         safe_enum(ExecutionMode, d.execution_mode, cs.execution_mode)]
                ELSE cs
          c2 == IF d.risk_mode # None
                THEN [c1 EXCEPT !.risk_mode =
                         safe_enum(RiskMode, d.risk_mode, c1.risk_mode)]
                ELSE c1
          c3 == IF d.trades_today # None /\ d.trades_today \in DOMAIN IntOf
                THEN [c2 EXCEPT !.trades_today = IntOf[d.trades_today]]
                ELSE c2
      IN sync_max_trades(c3)

\* _save_config_to_disk: the payload written for the state cs
save_payload(cs) ==
    DiskFile("ok", cs.execution_mode, cs.risk_mode, StrOf(cs.trades_today))

extract_mode_Default(query_mode, body_obj, allowed) ==
    IF query_mode # None /\ norm(query_mode) \in allowed THEN norm(query_mode)
    ELSE IF body_obj # None /\ norm(body_obj) \in allowed THEN norm(body_obj)
    ELSE CHOOSE m \in allowed : TRUE

\* _extract_mode: the accepted mode, or None (HTTP 422)
extract_mode(query_mode, body_obj, allowed) ==
    IF query_mode # None /\ norm(query_mode) \in allowed THEN norm(query_mode)
    ELSE IF body_obj # None /\ norm(body_obj) \in allowed THEN norm(body_obj)
    ELSE None

----------------------------------------------------------------------------
(* routes/monitor.py: SessionClock and RiskProfile *)

\* Representative instants in America/New_York, in increasing order.
\* dow is strftime("%u"): 1 = Monday .. 7 = Sunday.
Times ==
    << [dow |-> 1, hour |-> 9,  minute |-> 29],
       [dow |-> 1, hour |-> 9,  minute |-> 30],
       [dow |-> 1, hour |-> 15, minute |-> 44],
       [dow |-> 1, hour |-> 15, minute |-> 45],
       [dow |-> 1, hour |-> 15, minute |-> 59],
       [dow |-> 1, hour |-> 16, minute |-> 0],
       [dow |-> 6, hour |-> 10, minute |-> 0] >>

is_after_close_time_Late(t) == t.hour > 15

is_after_close_time(t) ==
    (t.hour > 15) \/ (t.hour = 15 /\ t.minute >= 45)

is_inside_rth_Inclusive(t) ==
    LET hhmm == t.hour * 100 + t.minute
    IN IF t.dow >= 6 THEN FALSE
       ELSE IF hhmm < 930 \/ hhmm > 1600 THEN FALSE
       ELSE TRUE

\* _is_inside_rth: the first component of its result
is_inside_rth(t) ==
    LET hhmm == t.hour * 100 + t.minute
    IN IF t.dow >= 6 THEN FALSE
       ELSE IF hhmm < 930 \/ hhmm >= 1600 THEN FALSE
       ELSE TRUE

\* _is_inside_rth: the second component, without the timestamp
rth_reason(t) ==
    LET hhmm == t.hour * 100 + t.minute
    IN IF t.dow >= 6 THEN "weekend"
       ELSE IF hhmm < 930 \/ hhmm >= 1600 THEN "outside_rth"
       ELSE "inside_rth"

\* thresholds in per-mille: 0.15 -> 150, 0.015 -> 15
get_risk_params(risk_mode) ==
    IF risk_mode = "high"
    THEN [tp_per_trade |-> 300, sl_per_trade |-> 150,
          daily_target |-> 50, daily_max_loss |-> 20]
    ELSE IF risk_mode = "medium"
    THEN [tp_per_trade |-> 200, sl_per_trade |-> 100,
          daily_target |-> 30, daily_max_loss |-> 15]
    ELSE [tp_per_trade |-> 150, sl_per_trade |-> 80,
          daily_target |-> 20, daily_max_loss |-> 10]

require_agent_secret_Present(expected, x_bdv_secret) ==
    \/ expected = ""
    \/ x_bdv_secret # None

\* _require_agent_secret: TRUE when the request is let through
require_agent_secret(expected, x_bdv_secret) ==
    \/ expected = ""
    \/ (x_bdv_secret # None /\ norm(x_bdv_secret) = expected)

----------------------------------------------------------------------------
(* routes/pending_trades.py and routes/routes/pending_trades.py *)

Ids == {"t1", "t2"}

Symbols == {"QQQ", "SPY"}

\* The trades the administrative surface submits (PendingTrade payloads).
\* An Optional number is <<>> for None and <<v>> for v; valid_until is an
\* index into Times.
TradeInputs ==
    { [symbol |-> "QQQ", side |-> "buy", qty |-> 1, trigger_price |-> 2,
       max_price |-> <<3>>, valid_until |-> <<3>>],
      [symbol |-> "QQQ", side |-> "buy", qty |-> 2, trigger_price |-> 2,
       max_price |-> <<>>, valid_until |-> <<>>],
      [symbol |-> "SPY", side |-> "sell", qty |-> 1, trigger_price |-> 2,
       max_price |-> <<>>, valid_until |-> <<>>] }

PendingTrade(id, t) ==
    [id |-> id, symbol |-> t.symbol, side |-> t.side, qty |-> t.qty,
     trigger_price |-> t.trigger_price, max_price |-> t.max_price,
     valid_until |-> t.valid_until, status |-> "pending"]

Terminal == {"triggered", "cancelled", "expired"}

IdsOf(book) == {book[i].id : i \in 1..Len(book)}

IndexOf(book, id) == CHOOSE i \in 1..Len(book) : book[i].id = id

\* list variant: for t in PENDING_TRADES: if t.id == trade.id -> 400;
\* dict variant: if trade.id in PENDING_TRADES -> 400
add_rejects_Never(book, id) == FALSE

add_rejects(book, id) == id \in IdsOf(book)

add_pending(book, trade) == Append(book, trade)

cancel_pending_PendingOnly(book, id) ==
    [book EXCEPT ![IndexOf(book, id)].status =
        IF @ = "pending" THEN "cancelled" ELSE @]

\* cancel: status = "cancelled" on the record with that id, whatever it was
cancel_pending(book, id) == [book EXCEPT ![IndexOf(book, id)].status = "cancelled"]

\* save_pending_trades: json.dump of [t.dict() ...] into a file opened with
\* "w"; a datetime in valid_until is not JSON serializable, json.dump then
\* raises after the file was truncated.
save_raises(book) == \E i \in 1..Len(book) : book[i].valid_until # <<>>

BookFile(state, records) == [state |-> state, records |-> records]

save_pending_trades(book) ==
    IF save_raises(book) THEN BookFile("corrupt", <<>>) ELSE BookFile("ok", book)

\* load_pending_trades: no file, or a file json.load rejects, gives []
load_pending_trades(f) == IF f.state = "ok" THEN f.records ELSE <<>>

----------------------------------------------------------------------------
(* routes/monitor.py: the steps of monitor_tick as functions *)

\* One outgoing request of a tick that reaches the broker: the account and
\* positions fetch, POST /alpaca/close-all, POST /alpaca/close/{symbol}, and
\* POST /trade (src is "auto" or the id of the pending trade).
Call(call, src, symbol, side, qty, ok) ==
    [call |-> call, src |-> src, symbol |-> symbol, side |-> side,
     qty |-> qty, ok |-> ok]

\* What the tick makes of the body of GET /config/status (lines 305-309);
\* config is {} when the request failed.
Seen(cs) ==
    [read |-> TRUE, execution_mode |-> cs.execution_mode,
     risk_mode |-> cs.risk_mode,
     max_trades_per_day |->
        IF cs.max_trades_per_day = 0 THEN 1 ELSE cs.max_trades_per_day,
     trades_today |-> cs.trades_today]

NoSeen ==
    [read |-> FALSE, execution_mode |-> "manual", risk_mode |-> "low",
     max_trades_per_day |-> 1, trades_today |-> 0]

\* lines 205-208: only a buy-side record can meet its condition
condition_met(trade, price) ==
    /\ trade.side = "buy"
    /\ price >= trade.trigger_price
    /\ (trade.max_price = <<>> \/ price <= trade.max_price[1])

evaluate_SkipNothing(trade, now, quotes) ==
    IF trade.valid_until # <<>> /\ now > trade.valid_until[1] THEN "expire"
    ELSE IF quotes[trade.symbol] = <<>> THEN "no_price"
    ELSE IF condition_met(trade, quotes[trade.symbol][1]) THEN "trigger"
    ELSE "not_met"

evaluate_PriceFirst(trade, now, quotes) ==
    IF trade.status # "pending" THEN "skip"
    ELSE IF quotes[trade.symbol] # <<>>
            /\ condition_met(trade, quotes[trade.symbol][1]) THEN "trigger"
    ELSE IF trade.valid_until # <<>> /\ now > trade.valid_until[1] THEN "expire"
    ELSE "not_met"

\* lines 183-211: what the loop body decides for one record
evaluate(trade, now, quotes) ==
    IF trade.status # "pending" THEN "skip"
    ELSE IF trade.valid_until # <<>> /\ now > trade.valid_until[1] THEN "expire"
    ELSE IF quotes[trade.symbol] = <<>> THEN "no_price"
    ELSE IF condition_met(trade, quotes[trade.symbol][1]) THEN "trigger"
    ELSE "not_met"

PendingOut(book, calls, results, raised) ==
    [book |-> book, calls |-> calls, results |-> results, raised |-> raised]

\* The loop of _process_pending_trades from record i on.  PendingTrade
\* declares neither expired_at nor triggered_at, so the assignments at
\* lines 188 and 217 raise ValueError (pydantic refuses a field the model
\* does not declare) right after the status was set: the loop ends there
\* and the function raises.
RECURSIVE process_from(_, _, _, _, _, _, _)
process_from(i, book, now, quotes, allow_execute, tradeOK, acc) ==
    IF i > Len(book) THEN acc
    ELSE
      LET trade == book[i]
          d == evaluate(trade, now, quotes)
      IN IF d = "expire"
         THEN PendingOut([acc.book EXCEPT ![i].status = "expired"],
                         acc.calls, acc.results, TRUE)
         ELSE IF d = "trigger" /\ allow_execute
         THEN PendingOut([acc.book EXCEPT ![i].status = "triggered"],
                         Append(acc.calls,
                                Call("order", trade.id, trade.symbol,
                                     trade.side, trade.qty, tradeOK)),
                         acc.results, TRUE)
         ELSE IF d = "trigger"
         THEN process_from(i + 1, book, now, quotes, allow_execute, tradeOK,
                  [acc EXCEPT !.results =
                      Append(@, [id |-> trade.id, status |-> "trigger_detected"])])
         ELSE process_from(i + 1, book, now, quotes, allow_execute, tradeOK, acc)

\* _process_pending_trades on the imported PENDING_TRADES: the list of
\* routes/pending_trades.py has no .values() (AttributeError at line 182).
process_pending_trades(impl, book, now, quotes, allow_execute, tradeOK) ==
    IF impl = "list"
    THEN PendingOut(book, <<>>, <<>>, TRUE)
    ELSE process_from(1, book, now, quotes, allow_execute, tradeOK,
                      PendingOut(book, <<>>, <<>>, FALSE))

\* lines 264-286: the first entry with a symbol and suggestion buy or sell
RECURSIVE pick_from(_, _)
pick_from(recs, i) ==
    IF i > Len(recs) THEN <<>>
    ELSE IF recs[i].suggestion \in {"buy", "sell"}
    THEN <<[symbol |-> recs[i].symbol, side |-> recs[i].suggestion]>>
    ELSE pick_from(recs, i + 1)

pick_trade_from_recommend_First(rec_payload) ==
    IF rec_payload = <<>> THEN <<>>
    ELSE <<[symbol |-> rec_payload[1].symbol, side |-> rec_payload[1].suggestion]>>

pick_trade_from_recommend(rec_payload) == pick_from(rec_payload, 1)

\* The bodies GET /recommend is given in the model: its "recommendations"
\* list; <<>> stands for an error body or a failed request.
RecPayloads ==
    { <<>>,
      <<[symbol |-> "QQQ", suggestion |-> "wait"]>>,
      <<[symbol |-> "QQQ", suggestion |-> "wait"],
        [symbol |-> "SPY", suggestion |-> "sell"]>>,
      <<[symbol |-> "QQQ", suggestion |-> "buy"]>> }

TpSlOut(closed, calls, raised) ==
    [closed |-> closed, calls |-> calls, raised |-> raised]

\* lines 367-382.  closeResp[symbol] is what POST /alpaca/close/{symbol}
\* does: "ok" (2xx), "rejected" (an error status with a JSON body, which
\* close_symbol_via_api returns like a success) or "raise" (timeout,
\* transport error or a non-JSON error body: the exception leaves the loop).
RECURSIVE tp_sl_from(_, _, _, _, _, _)
tp_sl_from(i, posSeq, plpc, params, closeResp, acc) ==
    IF i > Len(posSeq) THEN acc
    ELSE
      LET symbol == posSeq[i]
          reason == IF plpc[symbol] >= params.tp_per_trade THEN "take_profit"
                    ELSE IF plpc[symbol] <= 0 - params.sl_per_trade THEN "stop_loss"
                    ELSE None
          c == Call("close_symbol", None, symbol, None, 0, closeResp[symbol] = "ok")
      IN IF reason = None
         THEN tp_sl_from(i + 1, posSeq, plpc, params, closeResp, acc)
         ELSE IF closeResp[symbol] = "raise"
         THEN TpSlOut(acc.closed, Append(acc.calls, c), TRUE)
         ELSE tp_sl_from(i + 1, posSeq, plpc, params, closeResp,
                  TpSlOut(Append(acc.closed, [symbol |-> symbol, reason |-> reason]),
                          Append(acc.calls, c), FALSE))

close_all_reason_NoLoss(hasPositions, t, pnl_today, equity, params) ==
    IF ~hasPositions THEN None
    ELSE IF is_after_close_time(t) THEN "time"
    ELSE IF pnl_today * 1000 >= equity * params.daily_target THEN "target"
    ELSE None

\* lines 345-364: the reason for which close-all runs, or None
close_all_reason(hasPositions, t, pnl_today, equity, params) ==
    IF ~hasPositions THEN None
    ELSE IF is_after_close_time(t) THEN "time"
    ELSE IF pnl_today * 1000 >= equity * params.daily_target THEN "target"
    ELSE IF pnl_today * 1000 <= 0 - (equity * params.daily_max_loss) THEN "max_loss"
    ELSE None

----------------------------------------------------------------------------
(* The state machine *)

\* What the last operation did.  Reported by the handler: its HTTP outcome
\* (status), the config tuple it returned or, for a tick, read (seen), the
\* "reason" of a tick that returns skipped (reason), and
\* the fields of the tick's "actions" object (reason_all, closed_symbols,
\* pending = pending_trades_executed, auto_entry).  Recorded next to it:
\* the body GET /recommend answered, <<>> when the tick did not ask, <<body>>
\* when it did (recommend),
\* the broker-side calls the tick made (calls), the status changes it made
\* to pending trades (changed), what the broker and the market answered
\* (fetched, quotes), whether the operation changed the cap (resynced), and
\* what the operation was called with (arg): the id of an add or a cancel,
\* the <<?mode=, body>> of a mode setter.
NoFetch == [plpc |-> <<>>, pnl_today |-> 0, equity |-> 0, last_equity |-> 0]

Blank(op, status, seen) ==
    [op |-> op, status |-> status, seen |-> seen, calls |-> <<>>,
     reason |-> None, reason_all |-> None, closed_symbols |-> <<>>, pending |-> <<>>,
     auto_entry |-> None, recommend |-> <<>>, changed |-> <<>>, fetched |-> NoFetch,
     quotes |-> <<>>, resynced |-> FALSE, arg |-> None, unsigned |-> FALSE]

Plain(op, status, seen) == Blank(op, status, seen)

NoQuotes == [s \in Symbols |-> <<>>]

\* the two tick threads of the overlapping-ticks machine, and what a thread
\* holds between its steps: the report so far (r), the positions line 324
\* fetched, the records list(PENDING_TRADES.values()) gave (the first n),
\* the loop index i, now (line 179), the quotes, whether the pending step
\* raised, and the status changes made
Threads == {1, 2}

IdleLocal ==
    [r |-> Blank("tick", "ok", NoSeen), positions |-> {}, n |-> 0, i |-> 0,
     now |-> 0, quotes |-> NoQuotes, raised |-> FALSE, changed |-> <<>>]

\* the config handlers of the concurrent-config machine: GET /config/status
\* serving the tick ("get") and one setter ("set"); m is the value
\* _sync_max_trades has computed and not yet stored
Handlers == {"get", "set"}

IdleHandler == [op |-> None, m |-> 0]

\* the body of a ConfigStatus response
Returned(cs) ==
    [read |-> TRUE, execution_mode |-> cs.execution_mode,
     risk_mode |-> cs.risk_mode, max_trades_per_day |-> cs.max_trades_per_day,
     trades_today |-> cs.trades_today]

Inc(n) == IF n < MaxOrders THEN n + 1 ELSE n

\* autoEntries counts from a state with trades_today = 0; -1: not counting
Epoch(cs) == IF cs.trades_today = 0 THEN 0 ELSE 0 - 1

\* Contents the config file may have when the process first starts.
DiskInit ==
    { DiskFile("missing", None, None, None),
      DiskFile("unreadable", None, None, None),
      DiskFile("malformed", None, None, None),
      DiskFile("ok", "auto", "High", "1"),
      DiskFile("ok", " AUTO ", "bogus", "x"),
      DiskFile("ok", "auto", None, "-1") }

Secrets == {"", "s3cret"}

Headers == {None, "s3cret", "wrong"}

Queries == {None, " s3cret "}

\* the secrets a request carries in X-BDV-SECRET and ?secret=, trimmed
Carried(h, q) == { norm(x) : x \in {h, q} \ {None} }

\* a secret is configured and the request carries none, or another one
Unsigned(h, q) ==
    BDV_AGENT_SECRET # "" /\ BDV_AGENT_SECRET \notin Carried(h, q)

Init ==
    /\ disk \in DiskInit
    /\ config_state = load_config_from_disk(ConfigStatus, disk)
    /\ tmpFile = DiskFile("missing", None, None, None)
    /\ bookImpl \in {"list", "dict"}
    /\ PENDING_TRADES = <<>>
    /\ bookFile = BookFile("missing", <<>>)
    /\ BDV_AGENT_SECRET \in Secrets
    /\ clock = 1
    /\ orderCount = [i \in Ids |-> 0]
    /\ autoEntries = Epoch(config_state)
    /\ last = Plain("start", "ok", Returned(config_state))
    /\ tickpc = [t \in Threads |-> "idle"]
    /\ ticklocal = [t \in Threads |-> IdleLocal]
    /\ cfgpc = [h \in Handlers |-> "idle"]
    /\ cfglocal = [h \in Handlers |-> IdleHandler]

storeVars == <<config_state, disk>>
bookVars == <<PENDING_TRADES, bookFile>>
\* what no handler writes, and the .tmp file only the stepwise save follows
envVars == <<bookImpl, BDV_AGENT_SECRET, tmpFile>>
brokerVars == <<orderCount, autoEntries>>

Idle ==
    /\ \A t \in DOMAIN tickpc : tickpc[t] = "idle"
    /\ \A t \in DOMAIN cfgpc : cfgpc[t] = "idle"

(* routes/config.py: the handlers *)

get_config_status_Stale ==
    /\ Idle
    /\ last' = Plain("get_status", "ok", Returned(config_state))
    /\ UNCHANGED <<storeVars, bookVars, envVars, clock, brokerVars, concVars>>

get_config_status ==
    /\ Idle
    /\ config_state' = sync_max_trades(config_state)
    /\ last' = [Plain("get_status", "ok", Returned(config_state'))
                  EXCEPT !.resynced = (config_state' # config_state)]
    /\ UNCHANGED <<disk, bookVars, envVars, clock, brokerVars, concVars>>

\* the tail of the three setters: _sync_max_trades, _save_config_to_disk
\* (whose failure is swallowed), return config_state
Commit(op, cs, saveOK, arg, unsigned) ==
    /\ config_state' = sync_max_trades(cs)
    /\ disk' = IF saveOK THEN save_payload(config_state') ELSE disk
    /\ last' = [Plain(op, "ok", Returned(config_state')) EXCEPT
                  !.arg = arg, !.unsigned = unsigned]

Rejected(op, status, arg, unsigned) ==
    /\ last' = [Plain(op, status, NoSeen) EXCEPT
                  !.arg = arg, !.unsigned = unsigned]
    /\ UNCHANGED <<storeVars, autoEntries>>

\* what _require_secret and _extract_mode make of the requests sent; ok:
\* the request is let through
Authorized ==
    { [ok |-> require_secret(BDV_AGENT_SECRET, h, q), unsigned |-> Unsigned(h, q)] :
        h \in Headers, q \in Queries }

\* the requests sent to the two mode setters: <<?mode=, JSON body>>
ExecRequests ==
    { <<mode, payload>> :
        mode \in {None, " AUTO ", "bogus"}, payload \in {None, "manual"} }

RiskRequests ==
    { <<mode, payload>> :
        mode \in {None, "medium", "High", "bogus"}, payload \in {None, "low"} }

ExecModes == { extract_mode(q[1], q[2], ExecutionMode) : q \in ExecRequests }

RiskModes == { extract_mode(q[1], q[2], RiskMode) : q \in RiskRequests }

set_execution_mode(saves) ==
    /\ Idle
    /\ \E authorized \in Authorized, q \in ExecRequests, saveOK \in saves :
          LET m == extract_mode(q[1], q[2], ExecutionMode)
          IN IF ~authorized.ok
             THEN Rejected("set_execution_mode", "unauthorized", None, authorized.unsigned)
             ELSE IF m = None
             THEN Rejected("set_execution_mode", "invalid", q, authorized.unsigned)
             ELSE /\ Commit("set_execution_mode",
                            [config_state EXCEPT !.execution_mode = m], saveOK, q,
                            authorized.unsigned)
                  /\ UNCHANGED autoEntries
    /\ UNCHANGED <<bookVars, envVars, clock, orderCount, concVars>>

set_risk_mode(saves) ==
    /\ Idle
    /\ \E authorized \in Authorized, q \in RiskRequests, saveOK \in saves :
          LET m == extract_mode(q[1], q[2], RiskMode)
          IN IF ~authorized.ok
             THEN Rejected("set_risk_mode", "unauthorized", None, authorized.unsigned)
             ELSE IF m = None
             THEN Rejected("set_risk_mode", "invalid", q, authorized.unsigned)
             ELSE /\ Commit("set_risk_mode",
                            [config_state EXCEPT !.risk_mode = m], saveOK, q,
                            authorized.unsigned)
                  /\ autoEntries' = Epoch(config_state')
    /\ UNCHANGED <<bookVars, envVars, clock, orderCount, concVars>>

reset_trades_today(saves) ==
    /\ Idle
    /\ \E authorized \in Authorized, saveOK \in saves :
          IF ~authorized.ok
          THEN Rejected("reset_trades_today", "unauthorized", None, authorized.unsigned)
          ELSE /\ Commit("reset_trades_today",
                         [config_state EXCEPT !.trades_today = 0], saveOK, None,
                         authorized.unsigned)
               /\ autoEntries' = 0
    /\ UNCHANGED <<bookVars, envVars, clock, orderCount, concVars>>

\* A direct assignment to the field max_trades_per_day of config_state,
\* which ConfigStatus does not guard.
StaleMax == {0, 2}

write_max_trades_per_day ==
    /\ Idle
    /\ \E v \in StaleMax :
          /\ v # config_state.max_trades_per_day
          /\ config_state' = [config_state EXCEPT !.max_trades_per_day = v]
    /\ last' = Plain("write_max_trades_per_day", "ok", NoSeen)
    /\ UNCHANGED <<disk, bookVars, envVars, clock, brokerVars, concVars>>

\* The process starts again: module import runs _load_config_from_disk on a
\* fresh ConfigStatus and rebuilds PENDING_TRADES.
Restarted(op, cs) ==
    /\ config_state' = cs
    /\ PENDING_TRADES' = IF bookImpl = "list"
                         THEN load_pending_trades(bookFile) ELSE <<>>
    /\ orderCount' = [i \in Ids |-> IF i \in IdsOf(PENDING_TRADES')
                                    THEN orderCount[i] ELSE 0]
    /\ autoEntries' = Epoch(cs)
    /\ last' = [Plain(op, "ok", Returned(cs)) EXCEPT
                  !.resynced = (cs.max_trades_per_day
                                  # config_state.max_trades_per_day)]

restart_KeepState ==
    /\ Idle
    /\ Restarted("restart", load_config_from_disk(config_state, disk))
    /\ UNCHANGED <<disk, bookFile, envVars, clock, concVars>>

restart ==
    /\ Idle
    /\ Restarted("restart", load_config_from_disk(ConfigStatus, disk))
    /\ UNCHANGED <<disk, bookFile, envVars, clock, concVars>>

(* routes/pending_trades.py, routes/routes/pending_trades.py: the handlers *)

\* the status changes between two versions of the book
RECURSIVE Changes(_, _, _)
Changes(old, new, i) ==
    IF i > Len(old) THEN <<>>
    ELSE (IF old[i].status # new[i].status
          THEN <<[id |-> new[i].id, status |-> new[i].status]>> ELSE <<>>)
         \o Changes(old, new, i + 1)

add_pending_trade(ids) ==
    /\ Idle
    /\ \E id \in ids, t \in TradeInputs :
          IF add_rejects(PENDING_TRADES, id)
          THEN /\ last' = [Plain("add", "conflict", NoSeen) EXCEPT !.arg = id]
               /\ UNCHANGED bookVars
          ELSE /\ PENDING_TRADES' = add_pending(PENDING_TRADES, PendingTrade(id, t))
               /\ bookFile' = IF bookImpl = "list"
                              THEN save_pending_trades(PENDING_TRADES') ELSE bookFile
               /\ last' = [Plain("add",
                                 IF bookImpl = "list" /\ save_raises(PENDING_TRADES')
                                 THEN "error" ELSE "ok", NoSeen) EXCEPT !.arg = id]
    /\ UNCHANGED <<storeVars, envVars, clock, brokerVars, concVars>>

cancel_pending_trade(ids) ==
    /\ Idle
    /\ \E id \in ids :
          IF id \notin IdsOf(PENDING_TRADES)
          THEN /\ last' = [Plain("cancel", "not_found", NoSeen) EXCEPT !.arg = id]
               /\ UNCHANGED bookVars
          ELSE /\ PENDING_TRADES' = cancel_pending(PENDING_TRADES, id)
               /\ bookFile' = IF bookImpl = "list"
                              THEN save_pending_trades(PENDING_TRADES') ELSE bookFile
               /\ last' = [Plain("cancel",
                                 IF bookImpl = "list" /\ save_raises(PENDING_TRADES')
                                 THEN "error" ELSE "ok", NoSeen)
                             EXCEPT !.arg = id,
                                    !.changed = Changes(PENDING_TRADES,
                                                        PENDING_TRADES', 1)]
    /\ UNCHANGED <<storeVars, envVars, clock, brokerVars, concVars>>

(* The environment: time passes. *)

advance_clock ==
    /\ Idle
    /\ clock < Len(Times)
    /\ clock' = clock + 1
    /\ last' = Plain("clock", "ok", NoSeen)
    /\ UNCHANGED <<storeVars, bookVars, envVars, brokerVars, concVars>>

(* routes/monitor.py: monitor_tick *)

\* what the broker and the market answer during a tick
Accounts == { [equity |-> 1000, last_equity |-> le] : le \in {980, 1000, 1010} }

PlpcVals == {0 - 100, 0, 200}

CloseResps == {"ok", "rejected", "raise"}

QuoteSets ==
    { [s \in Symbols |-> <<>>],
      [s \in Symbols |-> <<1>>],
      [s \in Symbols |-> <<2>>],
      [s \in Symbols |-> <<4>>] }

Orderings(S) ==
    { q \in UNION { [1..n -> S] : n \in {Cardinality(S)} } :
        \A i, j \in DOMAIN q : i # j => q[i] # q[j] }

RECURSIVE Counted(_, _, _)
Counted(counts, calls, i) ==
    IF i > Len(calls) THEN counts
    ELSE Counted(IF calls[i].call = "order" /\ calls[i].src \in Ids
                 THEN [counts EXCEPT ![calls[i].src] = Inc(@)] ELSE counts,
                 calls, i + 1)

\* the auto-entry orders among calls that POST /trade accepted
AutoOrders(calls) ==
    Cardinality({i \in 1..Len(calls) : /\ calls[i].call = "order"
                                       /\ calls[i].src = "auto"
                                       /\ calls[i].ok})

\* the tick ends with the report r, having made r.calls and left book
TickEnd(r, book) ==
    /\ last' = [r EXCEPT !.changed = Changes(PENDING_TRADES, book, 1)]
    /\ PENDING_TRADES' = book
    /\ orderCount' = Counted(orderCount, r.calls, 1)
    /\ autoEntries' = IF AutoOrders(r.calls) > 0 /\ autoEntries >= 0
                      THEN Inc(autoEntries) ELSE autoEntries
    /\ UNCHANGED concVars

\* line 324: get_account_and_positions, when both requests succeed
FetchCalls == <<Call("account", None, None, None, 0, TRUE),
                Call("positions", None, None, None, 0, TRUE)>>

\* lines 394-411; fetched: the positions line 324 returned
auto_entry_NoCap(seen, fetched, rec, autoOK) ==
    IF fetched # {}
    THEN [auto_entry |-> None, calls |-> <<>>, recommend |-> <<>>]
    ELSE LET pick == pick_trade_from_recommend(rec)
         IN IF pick = <<>>
            THEN [auto_entry |-> "no_trade_signal", calls |-> <<>>,
                  recommend |-> <<rec>>]
            ELSE [auto_entry |-> "attempted",
                  calls |-> <<Call("order", "auto", pick[1].symbol,
                                   pick[1].side, 1, autoOK)>>,
                  recommend |-> <<rec>>]

auto_entry(seen, fetched, rec, autoOK) ==
    IF fetched # {}
    THEN [auto_entry |-> None, calls |-> <<>>, recommend |-> <<>>]
    ELSE IF seen.trades_today >= seen.max_trades_per_day
    THEN [auto_entry |-> "max_trades_per_day_reached", calls |-> <<>>,
          recommend |-> <<>>]
    ELSE LET pick == pick_trade_from_recommend(rec)
         IN IF pick = <<>>
            THEN [auto_entry |-> "no_trade_signal", calls |-> <<>>,
                  recommend |-> <<rec>>]
            ELSE [auto_entry |-> "attempted",
                  calls |-> <<Call("order", "auto", pick[1].symbol,
                                   pick[1].side, 1, autoOK)>>,
                  recommend |-> <<rec>>]

\* the inputs a step does not look at are not enumerated
Qualifying(positions, plpc, params) ==
    {p \in positions : \/ plpc[p] >= params.tp_per_trade
                       \/ plpc[p] <= 0 - params.sl_per_trade}

CloseRespsFor(positions, plpc, params) ==
    { f \in [positions -> CloseResps] :
        \A p \in positions \ Qualifying(positions, plpc, params) : f[p] = "ok" }

HasPending(book) == \E i \in 1..Len(book) : book[i].status = "pending"

\* the snapshot answers and the /recommend bodies worth telling apart: one
\* stands for all when no record is pending and the step does the same for
\* each
QuotesFor(book, now) ==
    IF \/ HasPending(book)
       \/ \E q \in QuoteSets :
             process_pending_trades(bookImpl, book, now, q, TRUE, TRUE)
               # process_pending_trades(bookImpl, book, now, NoQuotes, TRUE, TRUE)
    THEN QuoteSets ELSE {NoQuotes}

RecsFor(seen, positions) ==
    IF \A rec \in RecPayloads :
          auto_entry(seen, positions, rec, TRUE).recommend = <<>>
    THEN {<<>>} ELSE RecPayloads

\* lines 384-413: pending trades, then auto entry; r is the report so far
TickTail(r, positions) ==
    \E quotes \in QuotesFor(PENDING_TRADES, clock) :
    \E tradeOK \in IF process_pending_trades(bookImpl, PENDING_TRADES, clock,
                                             quotes, TRUE, TRUE).calls = <<>>
                   THEN {TRUE} ELSE BOOLEAN :
    \E rec \in RecsFor(r.seen, positions) :
    \E autoOK \in IF auto_entry(r.seen, positions, rec, TRUE).calls = <<>>
                  THEN {TRUE} ELSE BOOLEAN :
       LET pp == process_pending_trades(bookImpl, PENDING_TRADES, clock,
                                        quotes, TRUE, tradeOK)
           ae == auto_entry(r.seen, positions, rec, autoOK)
       IN TickEnd([r EXCEPT !.calls = @ \o pp.calls \o ae.calls,
                            \* line 389: an exception leaves the list empty
                            !.pending = IF pp.raised THEN <<>> ELSE pp.results,
                            !.auto_entry = ae.auto_entry,
                            !.recommend = ae.recommend,
                            !.quotes = quotes],
                  pp.book)

\* A tick thread t has done lines 298-382 and enters _process_pending_trades:
\* it holds a copy of the record list, now and the snapshot quotes.
Park(t, r, positions) ==
    \E quotes \in QuotesFor(PENDING_TRADES, clock) :
       /\ tickpc' = [tickpc EXCEPT ![t] = "loop"]
       /\ ticklocal' = [ticklocal EXCEPT ![t] =
              [r |-> [r EXCEPT !.quotes = quotes], positions |-> positions,
               n |-> Len(PENDING_TRADES), i |-> 1, now |-> clock,
               quotes |-> quotes, raised |-> FALSE, changed |-> <<>>]]
       /\ UNCHANGED <<last, PENDING_TRADES, brokerVars, cfgpc, cfglocal>>

\* lines 366-382: TP/SL per position, then the rest of the tick; t = 0 is
\* the tick that runs alone, t in Threads a tick thread
TickSteps(r, posSeq, plpc, params, t) ==
    \E closeResp \in CloseRespsFor(DOMAIN plpc, plpc, params) :
       LET ts == tp_sl_from(1, posSeq, plpc, params, closeResp,
                            TpSlOut(<<>>, <<>>, FALSE))
       IN IF ts.raised
          THEN TickEnd([r EXCEPT !.status = "error", !.calls = @ \o ts.calls],
                       PENDING_TRADES)
          ELSE LET r2 == [r EXCEPT !.calls = @ \o ts.calls,
                                   !.closed_symbols = ts.closed]
               IN IF t = 0 THEN TickTail(r2, DOMAIN plpc)
                  ELSE Park(t, r2, DOMAIN plpc)

\* get_account_and_positions: the answers to its two requests, and whether
\* it raises; a 404 for the positions is answer "ok" with no positions
Fetches == {"ok", "account_error", "positions_error"}

fetch_raises_AccountOnly(fetch) == fetch = "account_error"

fetch_raises(fetch) == fetch \in {"account_error", "positions_error"}

\* lines 323-364: fetch, then the close-all rules
TickAuto(seen, universe, t, unsigned) ==
    \E fetch \in Fetches :
       IF fetch_raises(fetch)
       THEN TickEnd([Blank("tick", "error", seen) EXCEPT
                       !.unsigned = unsigned,
                       !.calls = IF fetch = "account_error"
                                 THEN <<Call("account", None, None, None, 0, FALSE)>>
                                 ELSE <<Call("account", None, None, None, 0, TRUE),
                                        Call("positions", None, None, None, 0, FALSE)>>],
                    PENDING_TRADES)
       ELSE
         \E positions \in SUBSET universe :
         \E posSeq \in Orderings(positions) :
         \E plpc \in [positions -> PlpcVals] :
         \E account \in IF positions = {} THEN {CHOOSE a \in Accounts : TRUE}
                        ELSE Accounts :
            LET params == get_risk_params(seen.risk_mode)
                pnl_today == account.equity - account.last_equity
                reason == close_all_reason(positions # {}, Times[clock],
                                           pnl_today, account.equity, params)
                r == [Blank("tick", "ok", seen) EXCEPT
                        !.unsigned = unsigned,
                        !.calls = [FetchCalls EXCEPT ![2].ok = (fetch = "ok")],
                        !.fetched = [plpc |-> plpc, pnl_today |-> pnl_today,
                                     equity |-> account.equity,
                                     last_equity |-> account.last_equity]]
            IN IF reason # None
               THEN \E closeAllOK \in BOOLEAN :
                      \* close_all_via_api raises on any other status
                      IF closeAllOK
                      THEN TickEnd([r EXCEPT
                               !.calls = Append(@, Call("close_all", None, None,
                                                        None, 0, TRUE)),
                               !.reason_all = reason], PENDING_TRADES)
                      ELSE TickEnd([r EXCEPT
                               !.status = "error",
                               !.calls = Append(@, Call("close_all", None, None,
                                                        None, 0, FALSE))],
                               PENDING_TRADES)
               ELSE TickSteps(r, posSeq, plpc, params, t)

mode_gate_Inverted(seen) == seen.execution_mode = "auto"

\* line 311: if exec_mode != "auto" the tick returns skipped
mode_gate(seen) == seen.execution_mode # "auto"

TickQuiet(status, reason, seen, unsigned) ==
    /\ last' = [Plain("tick", status, seen) EXCEPT
                  !.reason = reason, !.unsigned = unsigned]
    /\ UNCHANGED <<PENDING_TRADES, brokerVars, concVars>>

TickBody_ConfigFirst(universe, t) ==
    /\ \E authorized \in { [ok |-> require_agent_secret(BDV_AGENT_SECRET, h),
                              unsigned |-> Unsigned(h, None)] : h \in Headers } :
          IF ~authorized.ok
          THEN TickQuiet("unauthorized", None, NoSeen, authorized.unsigned)
                 /\ UNCHANGED config_state
          ELSE \E cfgOK \in BOOLEAN :
                 LET cs == IF cfgOK THEN sync_max_trades(config_state)
                           ELSE config_state
                     seen == IF cfgOK THEN Seen(cs) ELSE NoSeen
                 IN /\ config_state' = cs
                    /\ IF ~is_inside_rth(Times[clock])
                       THEN TickQuiet("skipped", rth_reason(Times[clock]), seen,
                                      authorized.unsigned)
                       ELSE IF mode_gate(seen)
                       THEN TickQuiet("skipped", "not_auto", seen, authorized.unsigned)
                       ELSE TickAuto(seen, universe, t, authorized.unsigned)
    /\ UNCHANGED <<disk, bookFile, envVars, clock>>

\* lines 298-413; universe: the symbols the account may hold positions in
TickBody(universe, t) ==
    /\ \E authorized \in { [ok |-> require_agent_secret(BDV_AGENT_SECRET, h),
                              unsigned |-> Unsigned(h, None)] : h \in Headers } :
          IF ~authorized.ok
          THEN TickQuiet("unauthorized", None, NoSeen, authorized.unsigned)
                 /\ UNCHANGED config_state
          ELSE IF ~is_inside_rth(Times[clock])
          THEN TickQuiet("skipped", rth_reason(Times[clock]), NoSeen, authorized.unsigned)
                 /\ UNCHANGED config_state
          ELSE \E cfgOK \in BOOLEAN :
                 \* GET /config/status runs _sync_max_trades on config_state;
                 \* a failed request leaves the tick with {}
                 LET cs == IF cfgOK THEN sync_max_trades(config_state)
                           ELSE config_state
                     seen == IF cfgOK THEN Seen(cs) ELSE NoSeen
                 IN /\ config_state' = cs
                    /\ IF mode_gate(seen)
                       THEN TickQuiet("skipped", "not_auto", seen, authorized.unsigned)
                       ELSE TickAuto(seen, universe, t, authorized.unsigned)
    /\ UNCHANGED <<disk, bookFile, envVars, clock>>

monitor_tick(universe) == Idle /\ TickBody(universe, 0)

(* Overlapping ticks.  monitor_tick is a plain def: FastAPI runs each     *)
(* request in a worker thread, and nothing in the module takes a lock.    *)
(* A thread gives way where it waits for an HTTP answer: before the loop  *)
(* (the snapshot request) and at POST /trade.                              *)

\* lines 298-385 of a tick thread; a tick that returns early ends here
tick_begin(t, universe) ==
    /\ tickpc[t] = "idle"
    /\ \A h \in Handlers : cfgpc[h] = "idle"
    /\ TickBody(universe, t)

GoTo(t, pc, local) ==
    /\ tickpc' = [tickpc EXCEPT ![t] = pc]
    /\ ticklocal' = [ticklocal EXCEPT ![t] = local]

\* lines 182-211 for the record at index i: the status check, the expiry
\* and the trigger condition, on the shared record as it is now
tick_loop(t) ==
    /\ tickpc[t] = "loop"
    /\ LET L == ticklocal[t]
       IN IF bookImpl = "list"
          THEN /\ GoTo(t, "auto", [L EXCEPT !.raised = TRUE])
               /\ UNCHANGED PENDING_TRADES
          ELSE IF L.i > L.n
          THEN /\ GoTo(t, "auto", L)
               /\ UNCHANGED PENDING_TRADES
          ELSE LET trade == PENDING_TRADES[L.i]
                   d == evaluate(trade, L.now, L.quotes)
               IN IF d = "expire"
                  THEN /\ PENDING_TRADES' =
                            [PENDING_TRADES EXCEPT ![L.i].status = "expired"]
                       /\ GoTo(t, "auto",
                               [L EXCEPT !.raised = TRUE,
                                         !.changed = Append(@,
                                            [id |-> trade.id, status |-> "expired"])])
                  ELSE IF d = "trigger"
                  THEN /\ GoTo(t, "submit", L)
                       /\ UNCHANGED PENDING_TRADES
                  ELSE /\ GoTo(t, "loop", [L EXCEPT !.i = @ + 1])
                       /\ UNCHANGED PENDING_TRADES
    /\ UNCHANGED <<storeVars, bookFile, envVars, clock, brokerVars, last,
                   cfgpc, cfglocal>>

\* lines 213-217: POST /trade answers, status = "triggered", and the
\* assignment to triggered_at raises
tick_submit(t) ==
    /\ tickpc[t] = "submit"
    /\ \E tradeOK \in BOOLEAN :
          LET L == ticklocal[t]
              trade == PENDING_TRADES[L.i]
          IN /\ orderCount' = [orderCount EXCEPT ![trade.id] = Inc(@)]
             /\ PENDING_TRADES' =
                  [PENDING_TRADES EXCEPT ![L.i].status = "triggered"]
             /\ GoTo(t, "auto",
                     [L EXCEPT !.raised = TRUE,
                               !.r.calls = Append(@,
                                   Call("order", trade.id, trade.symbol,
                                        trade.side, trade.qty, tradeOK)),
                               !.changed = Append(@,
                                   [id |-> trade.id, status |-> "triggered"])])
    /\ UNCHANGED <<storeVars, bookFile, envVars, clock, autoEntries, last,
                   cfgpc, cfglocal>>

\* lines 389-413: the auto entry and the response
tick_finish(t) ==
    /\ tickpc[t] = "auto"
    /\ LET L == ticklocal[t]
       IN \E rec \in RecsFor(L.r.seen, L.positions) :
          \E autoOK \in IF auto_entry(L.r.seen, L.positions, rec, TRUE).calls = <<>>
                         THEN {TRUE} ELSE BOOLEAN :
             LET ae == auto_entry(L.r.seen, L.positions, rec, autoOK)
             IN /\ last' = [L.r EXCEPT !.calls = @ \o ae.calls,
                                       !.auto_entry = ae.auto_entry,
                                       !.recommend = ae.recommend,
                                       !.changed = L.changed]
                /\ autoEntries' = IF AutoOrders(ae.calls) > 0 /\ autoEntries >= 0
                                  THEN Inc(autoEntries) ELSE autoEntries
    /\ GoTo(t, "idle", IdleLocal)
    /\ UNCHANGED <<storeVars, bookVars, envVars, clock, orderCount,
                   cfgpc, cfglocal>>

(* Concurrent config handlers.  get_config_status and reset_trades_today  *)
(* are plain defs (worker threads), the two mode setters are coroutines   *)
(* (the event-loop thread); config_state is shared and nothing locks it.  *)
(* _sync_max_trades reads risk_mode, then stores the cap.                 *)

HandlerGoTo(h, pc, local) ==
    /\ cfgpc' = [cfgpc EXCEPT ![h] = pc]
    /\ cfglocal' = [cfglocal EXCEPT ![h] = local]

ConfigRest == <<bookVars, envVars, clock, orderCount, tickpc, ticklocal>>

\* line 42, right-hand side: MAX_TRADES_BY_RISK.get(config_state.risk_mode, 1)
sync_read(h) ==
    /\ cfgpc[h] = "sync"
    /\ HandlerGoTo(h, "store", [cfglocal[h] EXCEPT !.m = MaxTradesOf(config_state)])
    /\ UNCHANGED <<storeVars, autoEntries, last, ConfigRest>>

\* line 42, the assignment to config_state.max_trades_per_day
sync_store(h) ==
    /\ cfgpc[h] = "store"
    /\ config_state' = [config_state EXCEPT !.max_trades_per_day = cfglocal[h].m]
    /\ HandlerGoTo(h, "return", cfglocal[h])
    /\ UNCHANGED <<disk, autoEntries, last, ConfigRest>>

\* the tick's GET /config/status arrives (line 199)
get_enter ==
    /\ cfgpc["get"] = "idle"
    /\ \A t \in Threads : tickpc[t] = "idle"
    /\ HandlerGoTo("get", "sync", [op |-> "tick_config", m |-> 0])
    /\ UNCHANGED <<storeVars, autoEntries, last, ConfigRest>>

\* line 201 and the serialization of the response; the tick reads the body
\* (monitor.py lines 305-309)
get_return ==
    /\ cfgpc["get"] = "return"
    /\ last' = Plain("tick_config", "ok", Seen(config_state))
    /\ HandlerGoTo("get", "idle", IdleHandler)
    /\ UNCHANGED <<storeVars, autoEntries, ConfigRest>>

\* a setter up to its assignment: lines 209-222, 233-246, 257-259
set_enter ==
    /\ cfgpc["set"] = "idle"
    /\ \A t \in Threads : tickpc[t] = "idle"
    /\ \E op \in {"set_execution_mode", "set_risk_mode", "reset_trades_today"},
          authorized \in Authorized :
       \E m \in IF op = "set_execution_mode" THEN ExecModes
                 ELSE IF op = "set_risk_mode" THEN RiskModes ELSE {"0"} :
          IF ~authorized.ok \/ m = None
          THEN /\ last' = Plain(op, IF authorized.ok THEN "invalid" ELSE "unauthorized",
                                NoSeen)
               /\ UNCHANGED <<config_state, cfgpc, cfglocal>>
          ELSE /\ config_state' =
                    IF op = "set_execution_mode"
                    THEN [config_state EXCEPT !.execution_mode = m]
                    ELSE IF op = "set_risk_mode"
                    THEN [config_state EXCEPT !.risk_mode = m]
                    ELSE [config_state EXCEPT !.trades_today = 0]
               /\ HandlerGoTo("set", "sync", [op |-> op, m |-> 0])
               /\ UNCHANGED last
    /\ UNCHANGED <<disk, autoEntries, ConfigRest>>

\* _save_config_to_disk and the response: lines 224-225, 248-249, 261-262
set_return ==
    /\ cfgpc["set"] = "return"
    /\ disk' = save_payload(config_state)
    /\ last' = Plain(cfglocal["set"].op, "ok", Returned(config_state))
    /\ autoEntries' = IF cfglocal["set"].op = "set_execution_mode"
                      THEN autoEntries ELSE Epoch(config_state)
    /\ HandlerGoTo("set", "idle", IdleHandler)
    /\ UNCHANGED <<config_state, ConfigRest>>

\* _process_pending_trades(snapshot_data, allow_execute=False): the
\* evaluation as a dry run
dry_run ==
    /\ Idle
    /\ \E quotes \in QuoteSets :
          LET out == process_pending_trades(bookImpl, PENDING_TRADES, clock,
                                            quotes, FALSE, TRUE)
          IN /\ PENDING_TRADES' = out.book
             /\ last' = [Blank("dry_run", IF out.raised THEN "error" ELSE "ok",
                               NoSeen)
                           EXCEPT !.calls = out.calls,
                                  !.pending = IF out.raised THEN <<>>
                                              ELSE out.results,
                                  !.quotes = quotes,
                                  !.changed = Changes(PENDING_TRADES, out.book, 1)]
    /\ UNCHANGED <<storeVars, bookFile, envVars, clock, brokerVars, concVars>>

(* routes/recommend.py: the /recommend the application serves (its router *)
(* is included before the placeholder of main.py), and the auto-entry     *)
(* step of a tick fed by it.                                               *)

\* The "data" of /snapshot as recommend_trade reads it: a price per symbol,
\* or nothing at all.  NVDA is left out.
Markets ==
    {<<>>} \cup { <<[symbol |-> "QQQ", price |-> q], [symbol |-> "SPY", price |-> p]>> :
                    q \in {600, 630}, p \in {670, 700} }

\* lines 40-85: the entry built for one symbol.  The momentum branch never
\* fires: change_pct is (price - 0.995 price) / (0.995 price), 0.5 for
\* every price.
recommend_entry(symbol, price) ==
    IF symbol = "QQQ" /\ price > 620
    THEN [symbol |-> symbol, bias |-> "bullish", suggestion |-> "buy calls"]
    ELSE IF symbol = "SPY" /\ price < 680
    THEN [symbol |-> symbol, bias |-> "bearish", suggestion |-> "buy puts"]
    ELSE [symbol |-> symbol, bias |-> "neutral", suggestion |-> "wait"]

\* recommend_trade: the HTTP status of the answer, the "recommendations" of
\* its body, and the list the function had built (entries).  With no data
\* the answer is the literal error body of lines 31-34.  Otherwise line 89
\* calls json.dumps, and the module never imports json: NameError, caught at
\* line 97, and line 100 calls json.dumps again, so the request ends as a
\* 500 and the list goes nowhere.
recommend_trade(market) ==
    IF market = <<>>
    THEN [http |-> 200, recommendations |-> <<>>, entries |-> <<>>]
    ELSE [http |-> 500, recommendations |-> <<>>,
          entries |-> [i \in 1..Len(market) |->
                         recommend_entry(market[i].symbol, market[i].price)]]

\* _get_recommendation: the body of a 200, else an error dict, which holds
\* no recommendations
get_recommendation(resp) ==
    IF resp.http # 200 THEN <<>> ELSE resp.recommendations

\* lines 391-411 of a tick in auto mode, inside the session, that found no
\* open position; arg keeps what recommend_trade did
auto_entry_step ==
    /\ Idle
    /\ config_state.execution_mode = "auto"
    /\ is_inside_rth(Times[clock])
    /\ \E market \in Markets, autoOK \in BOOLEAN :
          LET resp == recommend_trade(market)
              seen == Seen(sync_max_trades(config_state))
              ae == auto_entry(seen, {}, get_recommendation(resp), autoOK)
          IN /\ last' = [Blank("auto_entry", "ok", seen) EXCEPT
                           !.calls = ae.calls,
                           !.auto_entry = ae.auto_entry,
                           !.recommend = ae.recommend,
                           !.arg = resp]
             /\ autoEntries' = IF AutoOrders(ae.calls) > 0 /\ autoEntries >= 0
                               THEN Inc(autoEntries) ELSE autoEntries
    /\ UNCHANGED <<storeVars, bookVars, envVars, clock, orderCount, concVars>>

\* The control loop with the administrative surface around it.
Next ==
    \/ get_config_status
    \/ set_execution_mode({TRUE})
    \/ set_risk_mode({TRUE})
    \/ reset_trades_today({TRUE})
    \/ add_pending_trade({"t1"})
    \/ cancel_pending_trade({"t1"})
    \/ advance_clock
    \/ monitor_tick({"QQQ"})

Spec == Init /\ [][Next]_vars

\* The ConfigStore on its own: every handler, a save that may fail, direct
\* writes to the cap and restarts of the process.
NextStore ==
    \/ get_config_status
    \/ set_execution_mode(BOOLEAN)
    \/ set_risk_mode(BOOLEAN)
    \/ reset_trades_today(BOOLEAN)
    \/ write_max_trades_per_day
    \/ restart

SpecStore == Init /\ [][NextStore]_vars

(* _save_config_to_disk step by step, and the process dying in the middle *)

SaveRest == <<bookVars, bookImpl, BDV_AGENT_SECRET, clock, orderCount,
              tickpc, ticklocal>>

save_open_InPlace ==
    /\ cfgpc["set"] = "return"
    /\ disk' = DiskFile("partial", None, None, None)
    /\ HandlerGoTo("set", "writing", cfglocal["set"])
    /\ UNCHANGED <<config_state, tmpFile, autoEntries, last, SaveRest>>

\* lines 121-130: tmp.write_text opens the .tmp file and starts writing
save_open ==
    /\ cfgpc["set"] = "return"
    /\ tmpFile' = DiskFile("partial", None, None, None)
    /\ HandlerGoTo("set", "writing", cfglocal["set"])
    /\ UNCHANGED <<storeVars, autoEntries, last, SaveRest>>

\* line 130: the payload is written out in full
save_write ==
    /\ cfgpc["set"] = "writing"
    /\ tmpFile' = save_payload(config_state)
    /\ HandlerGoTo("set", "replace", cfglocal["set"])
    /\ UNCHANGED <<storeVars, autoEntries, last, SaveRest>>

SetterDone ==
    /\ last' = Plain(cfglocal["set"].op, "ok", Returned(config_state))
    /\ autoEntries' = IF cfglocal["set"].op = "set_execution_mode"
                      THEN autoEntries ELSE Epoch(config_state)
    /\ HandlerGoTo("set", "idle", IdleHandler)

\* line 131: os.replace(tmp, path), then the setter returns
save_replace ==
    /\ cfgpc["set"] = "replace"
    /\ disk' = tmpFile
    /\ tmpFile' = DiskFile("missing", None, None, None)
    /\ SetterDone
    /\ UNCHANGED <<config_state, SaveRest>>

\* lines 132-133: an exception anywhere in the save is swallowed
save_abort ==
    /\ cfgpc["set"] \in {"return", "writing", "replace"}
    /\ SetterDone
    /\ UNCHANGED <<storeVars, tmpFile, bookVars, bookImpl, BDV_AGENT_SECRET,
                   clock, orderCount, tickpc, ticklocal>>

\* the process dies while a setter is running and is started again
crash ==
    /\ cfgpc["set"] # "idle"
    /\ Restarted("crash", load_config_from_disk(ConfigStatus, disk))
    /\ cfgpc' = [h \in Handlers |-> "idle"]
    /\ cfglocal' = [h \in Handlers |-> IdleHandler]
    /\ UNCHANGED <<disk, tmpFile, bookFile, bookImpl, BDV_AGENT_SECRET, clock,
                   tickpc, ticklocal>>

NextSave ==
    \/ set_enter
    \/ \E h \in Handlers : sync_read(h)
    \/ \E h \in Handlers : sync_store(h)
    \/ save_open
    \/ save_write
    \/ save_replace
    \/ save_abort
    \/ crash

SpecSave == Init /\ [][NextSave]_vars

\* The PendingOrderBook on its own: both ids, and the evaluation as a dry run.
NextBook ==
    \/ add_pending_trade(Ids)
    \/ cancel_pending_trade(Ids)
    \/ advance_clock
    \/ dry_run

SpecBook == Init /\ [][NextBook]_vars

\* Two ticks in flight at once over an account with no positions.
NextOverlap ==
    \/ add_pending_trade({"t1"})
    \/ advance_clock
    \/ \E t \in Threads : tick_begin(t, {})
    \/ \E t \in Threads : tick_loop(t)
    \/ \E t \in Threads : tick_submit(t)
    \/ \E t \in Threads : tick_finish(t)

SpecOverlap == Init /\ [][NextOverlap]_vars

\* The tick's config read while a setter runs.
NextConfig ==
    \/ get_enter
    \/ set_enter
    \/ \E h \in Handlers : sync_read(h)
    \/ \E h \in Handlers : sync_store(h)
    \/ get_return
    \/ set_return

SpecConfig == Init /\ [][NextConfig]_vars

\* The tick over an account that may hold positions in both symbols.
NextPositions ==
    \/ advance_clock
    \/ monitor_tick(Symbols)

SpecPositions == Init /\ [][NextPositions]_vars

\* Ticks that keep coming over a flat account while records wait in the
\* book.  A caller that keeps invoking the tick gets, again and again, a tick
\* that is let through, reads the config, fetches and goes on to the pending
\* step (lines 384-389): that step is taken infinitely often if it can be
\* taken infinitely often.
pending_step_tick ==
    /\ monitor_tick({})
    /\ last'.status = "ok" /\ last'.seen.read /\ Len(last'.calls) >= 2

NextExpiry ==
    \/ add_pending_trade({"t1"})
    \/ cancel_pending_trade({"t1"})
    \/ advance_clock
    \/ monitor_tick({})

SpecExpiry == Init /\ [][NextExpiry]_vars /\ SF_vars(pending_step_tick)

\* The auto-entry step fed by the application's own /recommend.
NextRecommend ==
    \/ set_risk_mode({TRUE})
    \/ reset_trades_today({TRUE})
    \/ advance_clock
    \/ auto_entry_step

SpecRecommend == Init /\ [][NextRecommend]_vars

----------------------------------------------------------------------------
(* Properties *)

\* the tables of the specification (sections 3 and 4.2), in per-mille
CapOf == [low |-> 1, medium |-> 3, high |-> 5]

ProfileOf ==
    [low    |-> [tp |-> 150, sl |-> 80,  target |-> 20, max_loss |-> 10],
     medium |-> [tp |-> 200, sl |-> 100, target |-> 30, max_loss |-> 15],
     high   |-> [tp |-> 300, sl |-> 150, target |-> 50, max_loss |-> 20]]

MinuteOfDay(t) == t.hour * 60 + t.minute

InSession(t) == t.dow <= 5 /\ MinuteOfDay(t) >= 570 /\ MinuteOfDay(t) < 960

\* the last operation was a tick that got past the secret check
TickRan == last.op = "tick" /\ last.status # "unauthorized"

\* ... and it fetched the account and the positions
TickFetched ==
    /\ TickRan
    /\ Len(last.calls) >= 2
    /\ last.calls[2].call = "positions" /\ last.calls[2].ok

OrdersOf(calls, src) ==
    {i \in 1..Len(calls) : calls[i].call = "order" /\ calls[i].src = src}

CallsOfKind(calls, kind) == {i \in 1..Len(calls) : calls[i].call = kind}

\* C1: a tick invoked while execution_mode is not auto makes no broker call
\* of any kind and returns status skipped.
C1_ModeGate ==
    (TickRan /\ config_state.execution_mode # "auto")
        => (last.calls = <<>> /\ last.status = "skipped")

C1_Witness ==
    /\ TickRan /\ last.seen.read
    /\ config_state.execution_mode = "manual"
    /\ InSession(Times[clock])
    /\ last.status = "skipped" /\ last.calls = <<>>

\* C2: when trades_today >= max_trades_per_day, the tick submits no
\* auto-entry order.
C2_CapBlocksEntry ==
    (TickRan /\ config_state.trades_today >= config_state.max_trades_per_day)
        => OrdersOf(last.calls, "auto") = {}

C2_Witness ==
    /\ TickFetched /\ last.status = "ok"
    /\ config_state.trades_today >= config_state.max_trades_per_day
    /\ last.fetched.plpc = <<>>
    /\ last.auto_entry = "max_trades_per_day_reached"
    /\ OrdersOf(last.calls, "auto") = {}

\* C3: counting from a state with trades_today = 0, with no reset and no
\* risk-mode change since, the auto-entry orders submitted never exceed the
\* max_trades_per_day of the risk mode.
C3_DailyBudget == autoEntries <= CapOf[config_state.risk_mode]

\* C4: a tick that submits an auto-entry order increments trades_today by
\* one, and a tick that submits none leaves trades_today unchanged.
C4_CountsEntries ==
    [][ last'.op = "tick" =>
          config_state'.trades_today =
              config_state.trades_today
                  + Cardinality(OrdersOf(last'.calls, "auto")) ]_vars

\* C5: at most one order is ever submitted for a pending trade id, and a
\* tick leaves a triggered, cancelled or expired record as it is and
\* submits no order for it.
C5_OneOrderPerTrade ==
    /\ [](\A id \in Ids : orderCount[id] <= 1)
    /\ [][ last'.op = "tick" =>
             \A i \in 1..Len(PENDING_TRADES) :
                PENDING_TRADES[i].status \in Terminal =>
                   /\ PENDING_TRADES'[i] = PENDING_TRADES[i]
                   /\ OrdersOf(last'.calls, PENDING_TRADES[i].id) = {} ]_vars

C5_Witness ==
    /\ bookImpl = "dict"
    /\ \E i \in 1..Len(PENDING_TRADES) :
          /\ PENDING_TRADES[i].status = "triggered"
          /\ orderCount[PENDING_TRADES[i].id] = 1
          /\ OrdersOf(last.calls, PENDING_TRADES[i].id) = {}
    /\ TickFetched /\ last.status = "ok" /\ last.reason_all = None
    /\ last.changed = <<>>

\* C6: in a tick where positions exist and a close-all condition holds
\* (15:45 reached, daily target reached or daily max loss reached), only
\* the close-all path runs: no per-symbol close, no pending trade evaluated
\* or changed, no auto-entry.
CloseAllDue ==
    /\ last.fetched.plpc # <<>>
    /\ LET t == Times[clock]
           pr == ProfileOf[last.seen.risk_mode]
       IN \/ MinuteOfDay(t) >= 945
          \/ last.fetched.pnl_today * 1000 >= last.fetched.equity * pr.target
          \/ last.fetched.pnl_today * 1000 <= 0 - (last.fetched.equity * pr.max_loss)

C6_CloseAllOnly ==
    (TickFetched /\ CloseAllDue) =>
        /\ \A i \in 1..Len(last.calls) :
              last.calls[i].call \in {"account", "positions", "close_all"}
        /\ Cardinality(CallsOfKind(last.calls, "close_all")) = 1
        /\ last.closed_symbols = <<>>
        /\ last.pending = <<>>
        /\ last.changed = <<>>
        /\ last.auto_entry = None

C6_Witness ==
    /\ TickFetched /\ CloseAllDue
    /\ last.reason_all # None
    /\ \E p \in DOMAIN last.fetched.plpc :
          last.fetched.plpc[p] >= ProfileOf[last.seen.risk_mode].tp
    /\ bookImpl = "dict" /\ HasPending(PENDING_TRADES)

\* C7: a pending record evaluated after its valid_until is marked expired
\* and no order is submitted for it, even if the quote meets its trigger.
\* Record i is evaluated when the loop of an executing tick gets to it:
\* every record before it was skipped or left pending.
PriceMet(trade, quotes) ==
    /\ quotes[trade.symbol] # <<>>
    /\ quotes[trade.symbol][1] >= trade.trigger_price
    /\ (trade.max_price = <<>> \/ quotes[trade.symbol][1] <= trade.max_price[1])

PastValidity(trade, now) ==
    trade.valid_until # <<>> /\ now > trade.valid_until[1]

LoopGetsTo(book, i, now, quotes) ==
    \A j \in 1..(i - 1) :
       \/ book[j].status # "pending"
       \/ (~PastValidity(book[j], now)
             /\ ~(book[j].side = "buy" /\ PriceMet(book[j], quotes)))

C8_CapFollowsRisk ==
    last.op = "get_status" =>
        last.seen.max_trades_per_day = CapOf[last.seen.risk_mode]

C8_Witness ==
    /\ last.op = "get_status"
    /\ last.resynced
    /\ last.seen.max_trades_per_day = CapOf[last.seen.risk_mode]

\* C9: with two ticks overlapping in any way, no pending trade has more
\* than one order submitted for it.
C9_OneOrderUnderOverlap ==
    \A i \in 1..Len(PENDING_TRADES) : orderCount[PENDING_TRADES[i].id] <= 1

\* C10: the config tuple a tick reads is the store's state at one instant:
\* the max_trades_per_day it observes is the cap of the risk_mode it
\* observes, whatever setter runs at the same time.
C10_ConsistentRead ==
    last.op = "tick_config" =>
        last.seen.max_trades_per_day = CapOf[last.seen.risk_mode]

\* the pending step of an executing tick ran: the tick fetched, no
\* close-all fired and the TP/SL step did not end it
PendingStepRan(r) ==
    /\ r.op = "tick" /\ r.status = "ok" /\ r.reason_all = None
    /\ Len(r.calls) >= 2

ClosesOf(calls, symbol) ==
    {i \in 1..Len(calls) : calls[i].call = "close_symbol" /\ calls[i].symbol = symbol}

\* C11: when closing one symbol fails in the TP/SL step, the failure is
\* recorded, every other position past a threshold is still closed, and the
\* tick goes on and returns its report.
C11_CloseFailureIsolated ==
    (TickFetched /\ \E i \in CallsOfKind(last.calls, "close_symbol") :
                       ~last.calls[i].ok)
        => /\ last.status = "ok"
           /\ \A p \in DOMAIN last.fetched.plpc :
                 (\/ last.fetched.plpc[p] >= ProfileOf[last.seen.risk_mode].tp
                  \/ last.fetched.plpc[p] <= 0 - ProfileOf[last.seen.risk_mode].sl)
                 => ClosesOf(last.calls, p) # {}

\* C12: a tick whose account or positions request fails ends with an error
\* having made no other call, changed no pending trade and left
\* trades_today as it was.
FetchFailed(calls) ==
    \E i \in 1..Len(calls) :
       calls[i].call \in {"account", "positions"} /\ ~calls[i].ok

C12_FetchFailureAborts ==
    [][ (last'.op = "tick" /\ FetchFailed(last'.calls))
        => /\ last'.status = "error"
           /\ \A i \in 1..Len(last'.calls) :
                 last'.calls[i].call \in {"account", "positions"}
           /\ PENDING_TRADES' = PENDING_TRADES
           /\ orderCount' = orderCount
           /\ config_state'.trades_today = config_state.trades_today ]_vars

C12_Witness ==
    /\ last.op = "tick" /\ last.status = "error"
    /\ last.seen.read /\ last.seen.execution_mode = "auto"
    /\ Len(last.calls) = 2
    /\ last.calls[2].call = "positions" /\ ~last.calls[2].ok
    /\ bookImpl = "dict" /\ HasPending(PENDING_TRADES)

\* C13: in an executing tick, a pending buy-side record that is not past
\* valid_until and that the evaluation gets to has its order submitted and
\* becomes triggered exactly when its quote exists and lies within
\* [trigger_price, max_price]; otherwise it stays pending with no order.
C13_BuyTrigger ==
    [][ PendingStepRan(last')
        => \A i \in 1..Len(PENDING_TRADES) :
              (/\ PENDING_TRADES[i].status = "pending"
               /\ PENDING_TRADES[i].side = "buy"
               /\ ~PastValidity(PENDING_TRADES[i], clock)
               /\ LoopGetsTo(PENDING_TRADES, i, clock, last'.quotes))
              => IF PriceMet(PENDING_TRADES[i], last'.quotes)
                 THEN /\ PENDING_TRADES'[i].status = "triggered"
                      /\ Cardinality(OrdersOf(last'.calls, PENDING_TRADES[i].id)) = 1
                 ELSE /\ PENDING_TRADES'[i].status = "pending"
                      /\ OrdersOf(last'.calls, PENDING_TRADES[i].id) = {} ]_vars

\* C14: in an executing tick, a pending sell-side record whose mirrored
\* price condition holds (price <= trigger_price and, if max_price is set,
\* price >= max_price) has its sell order submitted and becomes triggered.
SellPriceMet(trade, quotes) ==
    /\ quotes[trade.symbol] # <<>>
    /\ quotes[trade.symbol][1] <= trade.trigger_price
    /\ (trade.max_price = <<>> \/ quotes[trade.symbol][1] >= trade.max_price[1])

C14_SellTrigger ==
    [][ (PendingStepRan(last') /\ bookImpl = "dict")
        => \A i \in 1..Len(PENDING_TRADES) :
              (/\ PENDING_TRADES[i].status = "pending"
               /\ PENDING_TRADES[i].side = "sell"
               /\ ~PastValidity(PENDING_TRADES[i], clock)
               /\ LoopGetsTo(PENDING_TRADES, i, clock, last'.quotes)
               /\ SellPriceMet(PENDING_TRADES[i], last'.quotes))
              => /\ PENDING_TRADES'[i].status = "triggered"
                 /\ OrdersOf(last'.calls, PENDING_TRADES[i].id) # {} ]_vars

\* C15: add with an id the book already holds is rejected and leaves the
\* book as it was; add with a fresh id appends exactly the submitted record.
C15_AddRejectsDuplicate ==
    [][ last'.op = "add"
        => IF last'.arg \in IdsOf(PENDING_TRADES)
           THEN /\ last'.status = "conflict"
                /\ PENDING_TRADES' = PENDING_TRADES
                /\ bookFile' = bookFile
           ELSE /\ last'.status # "conflict"
                /\ Len(PENDING_TRADES') = Len(PENDING_TRADES) + 1
                /\ SubSeq(PENDING_TRADES', 1, Len(PENDING_TRADES)) = PENDING_TRADES
                /\ \E t \in TradeInputs :
                      PENDING_TRADES'[Len(PENDING_TRADES')] =
                         [id |-> last'.arg, symbol |-> t.symbol, side |-> t.side,
                          qty |-> t.qty, trigger_price |-> t.trigger_price,
                          max_price |-> t.max_price, valid_until |-> t.valid_until,
                          status |-> "pending"] ]_vars

C15_Witness ==
    /\ last.op = "add" /\ last.status = "conflict"
    /\ Len(PENDING_TRADES) = 2
    /\ \E i \in 1..Len(PENDING_TRADES) :
          PENDING_TRADES[i].id = last.arg /\ PENDING_TRADES[i].status = "cancelled"

\* C16: cancel of a known id leaves that record cancelled and every other
\* record as it was, cancelling it again changes nothing, and cancel of an
\* unknown id answers not found and changes nothing.
C16_CancelIdempotent ==
    [][ last'.op = "cancel"
        => IF last'.arg \notin IdsOf(PENDING_TRADES)
           THEN /\ last'.status = "not_found"
                /\ PENDING_TRADES' = PENDING_TRADES
                /\ bookFile' = bookFile
           ELSE /\ last'.status # "not_found"
                /\ Len(PENDING_TRADES') = Len(PENDING_TRADES)
                /\ \A i \in 1..Len(PENDING_TRADES) :
                      PENDING_TRADES'[i] =
                         IF PENDING_TRADES[i].id = last'.arg
                         THEN [PENDING_TRADES[i] EXCEPT !.status = "cancelled"]
                         ELSE PENDING_TRADES[i]
                /\ (\E i \in 1..Len(PENDING_TRADES) :
                       /\ PENDING_TRADES[i].id = last'.arg
                       /\ PENDING_TRADES[i].status = "cancelled")
                   => (PENDING_TRADES' = PENDING_TRADES /\ bookFile' = bookFile) ]_vars

C16_Witness ==
    /\ last.op = "cancel" /\ last.status # "not_found"
    /\ last.changed = <<>>
    /\ \E i \in 1..Len(PENDING_TRADES) :
          PENDING_TRADES[i].id = last.arg /\ PENDING_TRADES[i].status = "cancelled"

\* C17: when the evaluation runs as a dry run, a pending record that is not
\* past valid_until and whose trigger condition holds is reported as
\* trigger_detected, no order is submitted and the record stays pending.
C17_DryRun ==
    [][ last'.op = "dry_run"
        => \A i \in 1..Len(PENDING_TRADES) :
              (/\ PENDING_TRADES[i].status = "pending"
               /\ PENDING_TRADES[i].side = "buy"
               /\ ~PastValidity(PENDING_TRADES[i], clock)
               /\ PriceMet(PENDING_TRADES[i], last'.quotes))
              => /\ \E k \in 1..Len(last'.pending) :
                       last'.pending[k] = [id |-> PENDING_TRADES[i].id,
                                           status |-> "trigger_detected"]
                 /\ last'.calls = <<>>
                 /\ PENDING_TRADES'[i].status = "pending" ]_vars

Defaults ==
    [execution_mode |-> "manual", risk_mode |-> "low",
     max_trades_per_day |-> 1, trades_today |-> 0]

\* C18: when the process starts with the config file missing, unreadable or
\* malformed, loading succeeds and the state is the defaults.
C18_DefaultsOnBadFile ==
    (last.op \in {"start", "restart"}
       /\ disk.state \in {"missing", "unreadable", "malformed"})
        => (last.status = "ok" /\ config_state = Defaults)

C18_Witness ==
    /\ last.op = "restart" /\ last.resynced
    /\ disk.state \in {"unreadable", "malformed"}
    /\ config_state = Defaults

\* C19: whatever step of a config save the process dies at, the file at
\* the config path is never partial: every step leaves it as it was or
\* installs the complete new state, and the load after the crash returns
\* the state that file holds.
SavedState(d, cs) ==
    /\ d.state = "ok"
    /\ d.execution_mode = cs.execution_mode
    /\ d.risk_mode = cs.risk_mode
    /\ d.trades_today \in DOMAIN IntOf
    /\ IntOf[d.trades_today] = cs.trades_today

C19_AtomicSave ==
    /\ [](disk.state # "partial")
    /\ [][ /\ (disk' = disk \/ SavedState(disk', config_state))
           /\ (last' # last /\ last'.op = "crash") =>
                 /\ disk' = disk
                 /\ (disk.execution_mode \in ExecutionMode
                       /\ disk.risk_mode \in RiskMode
                       /\ disk.trades_today \in DOMAIN IntOf)
                    => SavedState(disk, config_state') ]_vars

C19_Witness ==
    /\ last.op = "crash" /\ last.resynced
    /\ tmpFile.state = "partial"
    /\ SavedState(disk, config_state)

\* C20: a restart right after a successful setter call reloads the
\* execution_mode, risk_mode and trades_today that call returned.
C20_RestartRestores ==
    [][ (/\ last'.op = "restart"
         /\ last.op \in {"set_execution_mode", "set_risk_mode", "reset_trades_today"}
         /\ last.status = "ok")
        => /\ config_state'.execution_mode = last.seen.execution_mode
           /\ config_state'.risk_mode = last.seen.risk_mode
           /\ config_state'.trades_today = last.seen.trades_today ]_vars

\* the strings that name a risk mode once trimmed and lower-cased, and the
\* ones the model feeds in that do not
KnownRisk == {"low", "medium", "high", "High"}

UnknownRisk == {"bogus"}

\* C21: a risk mode outside low, medium, high that reaches the config loader
\* is a configuration error: the load does not succeed with a mode and a cap
\* of its own choosing.
C21_UnknownRiskIsError ==
    (last.op \in {"start", "restart"}
       /\ disk.state = "ok" /\ disk.risk_mode \in UnknownRisk)
        => last.status # "ok"

KnownExec == {"auto", " AUTO ", "manual"}

C23_SessionWindow ==
    TickRan => ((last.status = "skipped"
                   /\ last.reason \in {"weekend", "outside_rth"})
                <=> ~(/\ Times[clock].dow \in 1..5
                      /\ MinuteOfDay(Times[clock]) >= 9 * 60 + 30
                      /\ MinuteOfDay(Times[clock]) < 16 * 60))

C23_Witness ==
    /\ TickRan
    /\ Times[clock].dow = 1 /\ Times[clock].hour = 16 /\ Times[clock].minute = 0
    /\ last.status = "skipped" /\ last.reason = "outside_rth"
    /\ config_state.execution_mode = "auto"

\* C24: a tick let through by the secret check outside the trading session
\* returns skipped at once: it has not read the config, made no broker
\* call, evaluated, expired or changed no pending trade, and left
\* trades_today and the rest of the config as they were, whatever the
\* execution mode.
C24_OutsideSessionNoEffect ==
    [][ (/\ last'.op = "tick" /\ last'.status # "unauthorized"
         /\ ~InSession(Times[clock]))
        => /\ last'.status = "skipped"
           /\ ~last'.seen.read
           /\ last'.calls = <<>>
           /\ last'.pending = <<>> /\ last'.changed = <<>>
           /\ PENDING_TRADES' = PENDING_TRADES
           /\ orderCount' = orderCount /\ autoEntries' = autoEntries
           /\ config_state' = config_state ]_vars

C24_Witness ==
    /\ TickRan /\ ~InSession(Times[clock])
    /\ last.status = "skipped" /\ ~last.seen.read
    /\ config_state.execution_mode = "auto"
    /\ bookImpl = "dict"
    /\ \E i \in 1..Len(PENDING_TRADES) :
          /\ PENDING_TRADES[i].status = "pending"
          /\ PastValidity(PENDING_TRADES[i], clock)

\* C25: in an auto-mode tick that fetched the account and the positions,
\* close-all is invoked exactly once when there are positions and 15:45 is
\* reached, or pnl_today >= equity * daily_target, or pnl_today <=
\* -equity * daily_max_loss, with pnl_today = equity - last_equity, and it
\* is not invoked at all otherwise; never with zero positions.
C25_CloseAllRule ==
    TickFetched =>
       LET f == last.fetched
           pr == ProfileOf[last.seen.risk_mode]
           pnl == f.equity - f.last_equity
           due == /\ DOMAIN f.plpc # {}
                  /\ \/ MinuteOfDay(Times[clock]) >= 15 * 60 + 45
                     \/ pnl * 1000 >= f.equity * pr.target
                     \/ pnl * 1000 <= 0 - (f.equity * pr.max_loss)
       IN Cardinality(CallsOfKind(last.calls, "close_all")) = IF due THEN 1 ELSE 0

C25_Witness ==
    /\ TickFetched
    /\ last.reason_all = "max_loss"
    /\ last.seen.risk_mode = "low"
    /\ MinuteOfDay(Times[clock]) < 15 * 60 + 45
    /\ last.fetched.equity - last.fetched.last_equity < 0
    /\ Cardinality(CallsOfKind(last.calls, "close_all")) = 1

\* C26: in a tick where no close-all condition holds, every position whose
\* unrealized P&L fraction is >= tp_per_trade or <= -sl_per_trade of the
\* risk mode gets exactly one close request and, when the broker accepts
\* it, is reported closed as take profit or as stop loss; a position
\* strictly between the thresholds gets none; whatever the order of the
\* positions.
C26_TpSlPerPosition ==
    (TickFetched /\ Cardinality(CallsOfKind(last.calls, "close_all")) = 0)
        => \A p \in DOMAIN last.fetched.plpc :
              LET pr == ProfileOf[last.seen.risk_mode]
                  v == last.fetched.plpc[p]
                  why == IF v >= pr.tp THEN "take_profit"
                         ELSE IF v <= 0 - pr.sl THEN "stop_loss" ELSE None
              IN IF why = None
                 THEN /\ ClosesOf(last.calls, p) = {}
                      /\ \A k \in 1..Len(last.closed_symbols) :
                            last.closed_symbols[k].symbol # p
                 ELSE /\ Cardinality(ClosesOf(last.calls, p)) = 1
                      /\ (\A i \in ClosesOf(last.calls, p) : last.calls[i].ok)
                         => \E k \in 1..Len(last.closed_symbols) :
                               last.closed_symbols[k] =
                                  [symbol |-> p, reason |-> why]

\* a /recommend body with no entry that says buy or sell: neutral, empty,
\* or the body of an error
NoSignal(rec) == \A i \in 1..Len(rec) : rec[i].suggestion \notin {"buy", "sell"}

\* C27: in a tick, when the daily cap is reached the recommendation service
\* is not asked; when it is asked and answers without a buy or sell (a
\* neutral answer, none, or an error) no order is submitted and the
\* auto-entry result is skipped for lack of a signal; a tick submits at most
\* one auto-entry order, of quantity 1.
C27_AutoEntryStep ==
    TickRan =>
       /\ (config_state.trades_today >= config_state.max_trades_per_day)
             => (last.recommend = <<>> /\ OrdersOf(last.calls, "auto") = {})
       /\ (last.recommend # <<>> /\ NoSignal(last.recommend[1]))
             => (/\ OrdersOf(last.calls, "auto") = {}
                 /\ last.auto_entry = "no_trade_signal")
       /\ Cardinality(OrdersOf(last.calls, "auto")) <= 1
       /\ \A i \in OrdersOf(last.calls, "auto") : last.calls[i].qty = 1

C27_Witness ==
    /\ TickFetched /\ last.status = "ok"
    /\ DOMAIN last.fetched.plpc = {}
    /\ config_state.trades_today < config_state.max_trades_per_day
    /\ last.recommend = << <<[symbol |-> "QQQ", suggestion |-> "wait"]>> >>
    /\ last.auto_entry = "no_trade_signal"
    /\ OrdersOf(last.calls, "auto") = {}

\* C28: a tick that starts with no open position never submits both a
\* pending-trade order that the broker accepts (which opens a position) and
\* an auto-entry order.
C28_OneEntryPerFlatTick ==
    (TickFetched /\ DOMAIN last.fetched.plpc = {})
        => ~(/\ \E i \in 1..Len(last.calls) :
                   /\ last.calls[i].call = "order"
                   /\ last.calls[i].src \in Ids
                   /\ last.calls[i].ok
             /\ OrdersOf(last.calls, "auto") # {})

\* C29: a record passes from pending to triggered in a tick only if that
\* tick placed its order: POST /trade was sent for its id and accepted.
C29_TriggeredOnlyIfPlaced ==
    [][ last'.op = "tick"
        => \A i \in 1..Len(PENDING_TRADES) :
              (PENDING_TRADES[i].status = "pending"
                 /\ PENDING_TRADES'[i].status = "triggered")
              => \E k \in OrdersOf(last'.calls, PENDING_TRADES[i].id) :
                    last'.calls[k].ok ]_vars

\* C30: the status of a record only moves from pending to triggered,
\* cancelled or expired: no add, cancel or tick changes the status of a
\* record that is triggered, cancelled or expired.
C30_TerminalIsFinal ==
    [][ \A i \in 1..Len(PENDING_TRADES) :
           PENDING_TRADES[i].status \in {"triggered", "cancelled", "expired"}
           => /\ i <= Len(PENDING_TRADES')
              /\ PENDING_TRADES'[i].id = PENDING_TRADES[i].id
              /\ PENDING_TRADES'[i].status = PENDING_TRADES[i].status ]_vars

\* C31: every action of a tick is in the report it returns: a record whose
\* status the tick changed and an order it submitted for a pending trade are
\* listed in pending_trades_executed, a symbol whose close request went
\* through is listed in closed_symbols, and an auto-entry order shows as an
\* attempted auto_entry.
C31_ReportComplete ==
    [][ last'.op = "tick"
        => /\ \A i \in 1..Len(PENDING_TRADES) :
                 (\/ PENDING_TRADES'[i].status # PENDING_TRADES[i].status
                  \/ OrdersOf(last'.calls, PENDING_TRADES[i].id) # {})
                 => \E k \in 1..Len(last'.pending) :
                       last'.pending[k].id = PENDING_TRADES[i].id
           /\ \A c \in CallsOfKind(last'.calls, "close_symbol") :
                 last'.calls[c].ok
                 => \E k \in 1..Len(last'.closed_symbols) :
                       last'.closed_symbols[k].symbol = last'.calls[c].symbol
           /\ OrdersOf(last'.calls, "auto") # {}
                 => last'.auto_entry = "attempted" ]_vars

\* a record is pending although its valid_until has passed
Overdue ==
    \E i \in 1..Len(PENDING_TRADES) :
       /\ PENDING_TRADES[i].status = "pending"
       /\ PENDING_TRADES[i].valid_until # <<>>
       /\ clock > PENDING_TRADES[i].valid_until[1]

\* C32: a record with valid_until does not stay pending for ever: while
\* auto-mode ticks keep reaching the pending step inside the session with no
\* close-all, a record past its valid_until gets to a terminal status.
C32_ExpiresEventually ==
    Overdue ~> (\/ ~Overdue
                \/ ~InSession(Times[clock])
                \/ config_state.execution_mode # "auto")

\* the first entry of a recommendation list that is bullish or bearish
RECURSIVE FirstDirectional(_, _)
FirstDirectional(entries, i) ==
    IF i > Len(entries) THEN <<>>
    ELSE IF entries[i].bias \in {"bullish", "bearish"} THEN <<entries[i]>>
    ELSE FirstDirectional(entries, i + 1)

\* C33: in the auto-entry step of an auto-mode tick with no open position
\* and trades_today < max_trades_per_day, when the recommendation service
\* comes to a bullish or bearish pick for a symbol, exactly one market order
\* of quantity 1 is submitted for that symbol, buy for bullish, sell for
\* bearish.
C33_DirectionalPickOrdered ==
    (/\ last.op = "auto_entry"
     /\ config_state.trades_today < config_state.max_trades_per_day
     /\ FirstDirectional(last.arg.entries, 1) # <<>>)
        => LET e == FirstDirectional(last.arg.entries, 1)[1]
               o == OrdersOf(last.calls, "auto")
           IN /\ Cardinality(o) = 1
              /\ \A k \in o :
                    /\ last.calls[k].symbol = e.symbol
                    /\ last.calls[k].side =
                          (IF e.bias = "bullish" THEN "buy" ELSE "sell")
                    /\ last.calls[k].qty = 1

\* C34: a tick invoked at or after 15:45 of a trading day submits no order,
\* neither an auto-entry order nor the order of a pending trade: once the
\* forced-close time is reached nothing is opened for the rest of the session.
C34_NoEntryAfterCloseTime ==
    (TickRan /\ MinuteOfDay(Times[clock]) >= 15 * 60 + 45)
        => CallsOfKind(last.calls, "order") = {}

\* C35: with BDV_AGENT_SECRET configured, a tick or a config mutation
\* (set_execution_mode, set_risk_mode, reset_trades_today) whose request
\* carries no secret or a wrong one is rejected as unauthorized and has no
\* effect: config_state and its file are as before, no broker call is made
\* and no pending trade changes.
C35_UnauthorizedNoEffect ==
    [][ (/\ last'.op \in {"tick", "set_execution_mode", "set_risk_mode",
                          "reset_trades_today"}
         /\ BDV_AGENT_SECRET # ""
         /\ last'.unsigned)
        => /\ last'.status = "unauthorized"
           /\ config_state' = config_state
           /\ disk' = disk
           /\ last'.calls = <<>>
           /\ orderCount' = orderCount
           /\ autoEntries' = autoEntries
           /\ PENDING_TRADES' = PENDING_TRADES ]_vars

C35_Witness ==
    /\ BDV_AGENT_SECRET = "s3cret"
    /\ last.op = "tick" /\ last.unsigned /\ last.status = "unauthorized"
    /\ config_state.execution_mode = "auto"
    /\ InSession(Times[clock])
    /\ \E i \in 1..Len(PENDING_TRADES) : PENDING_TRADES[i].status = "pending"

\* C36: a symbol is listed in closed_symbols of a tick's report only if the
\* close request for it succeeded; a close the broker side rejected is not
\* reported as a closed symbol.
C36_ClosedOnlyIfSucceeded ==
    TickRan
        => \A k \in 1..Len(last.closed_symbols) :
              \E c \in ClosesOf(last.calls, last.closed_symbols[k].symbol) :
                 last.calls[c].ok

\* what each setter leaves alone
SetterFrames ==
    /\ (last'.op = "reset_trades_today" /\ last'.status = "ok")
          => /\ config_state'.trades_today = 0
             /\ config_state'.execution_mode = config_state.execution_mode
             /\ config_state'.risk_mode = config_state.risk_mode
    /\ (last'.op = "set_execution_mode" /\ last'.status = "ok")
          => /\ config_state'.risk_mode = config_state.risk_mode
             /\ config_state'.trades_today = config_state.trades_today
    /\ (last'.op = "set_risk_mode" /\ last'.status = "ok")
          => /\ config_state'.execution_mode = config_state.execution_mode
             /\ config_state'.trades_today = config_state.trades_today

\* C37: reset_trades_today sets trades_today to 0 and leaves execution_mode
\* and risk_mode as they were; set_execution_mode leaves risk_mode and
\* trades_today, set_risk_mode leaves execution_mode and trades_today; and
\* trades_today is a non-negative integer in every reachable state of the
\* store, the state right after loading from disk included.
C37_SetterFramesAndCounter ==
    /\ [](config_state.trades_today \in Nat)
    /\ [][SetterFrames]_vars

====
